---------------------------- MODULE Spec2Model ----------------------------
(* A model of the fofc container codec (src/src/lib.rs): the Container    *)
(* record, its file list operations and the binary encoder and decoder.   *)
(*                                                                        *)
(* Representation.                                                        *)
(*   - a byte is a number in 0..255, a buffer a sequence of bytes;        *)
(*   - a Rust String is the sequence of its Unicode scalar values; the    *)
(*     bytes it holds are as_bytes(s), its UTF-8 encoding;                *)
(*   - a u64 is a sequence of four 16-bit limbs, least significant first  *)
(*     (the model checker's integers are 32 bits wide), so that the       *)
(*     64-bit width and the carry out of bit 63 are both kept;            *)
(*   - an Option is a sequence of length 0 (None) or 1 (Some).            *)
EXTENDS Integers, Sequences, FiniteSets, TLC

--------------------------------------------------------------------------
(* Option values *)

None == << >>

Some(v) == << v >>

IsSome(o) == Len(o) = 1

Unwrap(o) == o[1]

--------------------------------------------------------------------------
(* Unsigned 64-bit integers as four 16-bit limbs, little-endian *)

LimbBase == 256 * 256

(* a small natural number (below 2^31) as a u64 *)
U64(n) == << n % LimbBase, n \div LimbBase, 0, 0 >>

(* The limbs of a + d (d a small constant), with the carry out of bit 63. *)
AddWithCarry(a, d) ==
    LET s1 == a[1] + d
        s2 == a[2] + (s1 \div LimbBase)
        s3 == a[3] + (s2 \div LimbBase)
        s4 == a[4] + (s3 \div LimbBase)
    IN  [sum   |-> << s1 % LimbBase, s2 % LimbBase, s3 % LimbBase, s4 % LimbBase >>,
         carry |-> s4 \div LimbBase]

(* u64 `+`: with overflow checks on (a debug build) an overflowing sum    *)
(* panics, without them (a release build) it wraps modulo 2^64.           *)
CheckedAdd(a, d, overflow_checks) ==
    LET r == AddWithCarry(a, d)
    IN  IF r.carry > 0 /\ overflow_checks
        THEN [panic |-> TRUE, val |-> U64(0)]
        ELSE [panic |-> FALSE, val |-> r.sum]

(* byteorder's write_u64::<LittleEndian> and write_u16::<LittleEndian> *)
write_u64(v) ==
    << v[1] % 256, v[1] \div 256, v[2] % 256, v[2] \div 256,
       v[3] % 256, v[3] \div 256, v[4] % 256, v[4] \div 256 >>

(* a write_u16 that puts the high byte first *)
write_u16_BigEndian(n) == << n \div 256, n % 256 >>

write_u16(n) == << n % 256, n \div 256 >>


--------------------------------------------------------------------------
(* Strings: a String is a sequence of Unicode scalar values; as_bytes is  *)
(* the UTF-8 encoding it is stored in, String::from_utf8_lossy the        *)
(* decoding that replaces every ill-formed subsequence by U+FFFD.         *)

REPLACEMENT_CHARACTER == 256 * 255 + 253

utf8_encode_char(ch) ==
    IF ch < 128 THEN << ch >>
    ELSE IF ch < 2048 THEN << 192 + (ch \div 64), 128 + (ch % 64) >>
    ELSE IF ch < LimbBase
         THEN << 224 + (ch \div 4096), 128 + ((ch \div 64) % 64), 128 + (ch % 64) >>
    ELSE << 240 + (ch \div 262144), 128 + ((ch \div 4096) % 64),
            128 + ((ch \div 64) % 64), 128 + (ch % 64) >>

RECURSIVE as_bytes(_)
as_bytes(s) ==
    IF s = << >> THEN << >> ELSE utf8_encode_char(Head(s)) \o as_bytes(Tail(s))

(* core::str::utf8_char_width for a leading byte >= 0x80 *)
utf8_char_width(b) ==
    IF b >= 194 /\ b <= 223 THEN 2
    ELSE IF b >= 224 /\ b <= 239 THEN 3
    ELSE IF b >= 240 /\ b <= 244 THEN 4
    ELSE 0

(* the byte at index i (1-based), or 0 past the end *)
safe_get(b, i) == IF i <= Len(b) THEN b[i] ELSE 0

IsCont(x) == x >= 128 /\ x <= 191

(* the range check on the second byte of a 3- or 4-byte sequence *)
SecondOk(lead, x) ==
    IF lead = 224 THEN x >= 160 /\ x <= 191
    ELSE IF lead = 237 THEN x >= 128 /\ x <= 159
    ELSE IF lead = 240 THEN x >= 144 /\ x <= 191
    ELSE IF lead = 244 THEN x >= 128 /\ x <= 143
    ELSE IsCont(x)

(* One step of Utf8Chunks at index i: the scalar decoded (U+FFFD for an   *)
(* ill-formed subsequence) and the number of bytes it covers.             *)
utf8_step(b, i) ==
    LET b0 == b[i]
        b1 == safe_get(b, i + 1)
        b2 == safe_get(b, i + 2)
        b3 == safe_get(b, i + 3)
        w  == utf8_char_width(b0)
        bad(n) == [ch |-> REPLACEMENT_CHARACTER, n |-> n]
    IN  IF b0 < 128 THEN [ch |-> b0, n |-> 1]
        ELSE IF w = 2
             THEN IF IsCont(b1)
                  THEN [ch |-> (b0 - 192) * 64 + (b1 - 128), n |-> 2]
                  ELSE bad(1)
        ELSE IF w = 3
             THEN IF ~SecondOk(b0, b1) THEN bad(1)
                  ELSE IF ~IsCont(b2) THEN bad(2)
                  ELSE [ch |-> (b0 - 224) * 4096 + (b1 - 128) * 64 + (b2 - 128),
                        n |-> 3]
        ELSE IF w = 4
             THEN IF ~SecondOk(b0, b1) THEN bad(1)
                  ELSE IF ~IsCont(b2) THEN bad(2)
                  ELSE IF ~IsCont(b3) THEN bad(3)
                  ELSE [ch |-> (b0 - 240) * 262144 + (b1 - 128) * 4096
                                + (b2 - 128) * 64 + (b3 - 128),
                        n |-> 4]
        ELSE bad(1)

RECURSIVE lossy_from(_, _)
lossy_from(b, i) ==
    IF i > Len(b) THEN << >>
    ELSE LET st == utf8_step(b, i) IN << st.ch >> \o lossy_from(b, i + st.n)

from_utf8_lossy(b) == lossy_from(b, 1)


--------------------------------------------------------------------------
(* The program's constants *)

Y_DIFFERENCE == 43

Z_DIFFERENCE == 34

(* a magic number one off *)
MAGIC_NUMBER_OneOff == 70 + 1

MAGIC_NUMBER == 70

(* The two errors from_bytes returns: the io::ErrorKind of a read past    *)
(* the end of the cursor, and the message of the magic number check.      *)
Truncated == "UnexpectedEof"

BadMagic == "invalid or incorrect magic number"

--------------------------------------------------------------------------
(* Container and File *)

File(name, content) == [name |-> name, content |-> content]

Container(comment, x, y, z, files) ==
    [comment |-> comment, x |-> x, y |-> y, z |-> z, files |-> files]

--------------------------------------------------------------------------
(* Container::to_bytes *)

RECURSIVE write_files(_)
write_files(files) ==
    IF files = << >> THEN << >>
    ELSE LET f == Head(files)
         IN  as_bytes(f.name) \o << 0 >> \o write_u64(U64(Len(f.content)))
                \o f.content \o write_files(Tail(files))

(* a to_bytes that leaves the 0x00 bytes of the comment out *)
to_bytes_skip_nul(c) ==
    << MAGIC_NUMBER >> \o SelectSeq(as_bytes(c.comment), LAMBDA b : b # 0) \o << 0 >>
        \o write_u64(c.x) \o write_u16(Len(c.files) % LimbBase) \o write_files(c.files)

to_bytes(c) ==
    << MAGIC_NUMBER >> \o as_bytes(c.comment) \o << 0 >> \o write_u64(c.x)
        \o write_u16(Len(c.files) % LimbBase) \o write_files(c.files)

--------------------------------------------------------------------------
(* The cursor reads of from_bytes. pos is the 1-based index of the next   *)
(* byte; every read returns ok = FALSE when the bytes left do not cover   *)
(* it (read_exact's UnexpectedEof).                                       *)

Remaining(bytes, pos) == Len(bytes) + 1 - pos

RECURSIVE read_until_0x00(_, _, _)
read_until_0x00(bytes, pos, buffer) ==
    IF pos > Len(bytes) THEN [ok |-> FALSE, buffer |-> << >>, pos |-> pos]
    ELSE IF bytes[pos] = 0 THEN [ok |-> TRUE, buffer |-> buffer, pos |-> pos + 1]
    ELSE read_until_0x00(bytes, pos + 1, Append(buffer, bytes[pos]))

read_string_until_0x00(bytes, pos) ==
    LET r == read_until_0x00(bytes, pos, << >>)
    IN  [ok |-> r.ok, string |-> from_utf8_lossy(r.buffer), pos |-> r.pos]

(* a read_u64 that takes the bytes in big-endian order *)
read_u64_BigEndian(bytes, pos) ==
    IF Remaining(bytes, pos) < 8 THEN [ok |-> FALSE, val |-> U64(0), pos |-> pos]
    ELSE [ok  |-> TRUE,
          val |-> [i \in 1..4 |-> bytes[pos + 9 - 2 * i] + 256 * bytes[pos + 8 - 2 * i]],
          pos |-> pos + 8]

read_u64(bytes, pos) ==
    IF Remaining(bytes, pos) < 8 THEN [ok |-> FALSE, val |-> U64(0), pos |-> pos]
    ELSE [ok  |-> TRUE,
          val |-> [i \in 1..4 |-> bytes[pos + 2 * i - 2] + 256 * bytes[pos + 2 * i - 1]],
          pos |-> pos + 8]

read_u16(bytes, pos) ==
    IF Remaining(bytes, pos) < 2 THEN [ok |-> FALSE, val |-> 0, pos |-> pos]
    ELSE [ok |-> TRUE, val |-> bytes[pos] + 256 * bytes[pos + 1], pos |-> pos + 2]


--------------------------------------------------------------------------
(* Container::from_bytes *)

(* a > b on u64 limbs *)
U64Gt(a, b) ==
    \E i \in 1..4 : a[i] > b[i] /\ \A j \in (i + 1)..4 : a[j] = b[j]

(* isize::MAX on a 64-bit target *)
ISIZE_MAX == << LimbBase - 1, LimbBase - 1, LimbBase - 1, (LimbBase \div 2) - 1 >>

Err(kind) == [kind |-> kind, c |-> None]

Ok(c) == [kind |-> "Ok", c |-> Some(c)]

(* vec![0; length as usize] on a 64-bit target: a capacity above          *)
(* isize::MAX panics ("capacity overflow"), a request the allocator does  *)
(* not grant aborts the process; alloc_limit is the largest request the   *)
(* allocator grants.                                                      *)
vec_zeroed(length, alloc_limit) ==
    IF U64Gt(length, ISIZE_MAX) THEN "Panic"
    ELSE IF U64Gt(length, alloc_limit) THEN "Abort"
    ELSE "Ok"

(* a read that takes the bytes left when they are fewer than `length`     *)
(* (read in place of read_exact)                                          *)
read_content_short(bytes, pos, length) ==
    IF U64Gt(length, U64(Remaining(bytes, pos)))
    THEN [ok |-> TRUE, content |-> SubSeq(bytes, pos, Len(bytes)), pos |-> Len(bytes) + 1]
    ELSE LET n == length[1] + LimbBase * length[2]
         IN  [ok |-> TRUE, content |-> SubSeq(bytes, pos, pos + n - 1), pos |-> pos + n]

(* read_exact into a buffer of `length` bytes *)
read_content(bytes, pos, length) ==
    IF U64Gt(length, U64(Remaining(bytes, pos)))
    THEN [ok |-> FALSE, content |-> << >>, pos |-> pos]
    ELSE LET n == length[1] + LimbBase * length[2]
         IN  [ok |-> TRUE, content |-> SubSeq(bytes, pos, pos + n - 1), pos |-> pos + n]

(* a loop that takes bytes left after the last file for an error *)
RECURSIVE read_files_to_end(_, _, _, _, _)
read_files_to_end(bytes, pos, left, files, alloc_limit) ==
    IF left = 0
    THEN IF pos <= Len(bytes) THEN [kind |-> Truncated, files |-> << >>]
         ELSE [kind |-> "Ok", files |-> files]
    ELSE
      LET name == read_string_until_0x00(bytes, pos)
          length == read_u64(bytes, name.pos)
          alloc == vec_zeroed(length.val, alloc_limit)
          content == read_content(bytes, length.pos, length.val)
      IN  IF ~name.ok THEN [kind |-> Truncated, files |-> << >>]
          ELSE IF ~length.ok THEN [kind |-> Truncated, files |-> << >>]
          ELSE IF alloc # "Ok" THEN [kind |-> alloc, files |-> << >>]
          ELSE IF ~content.ok THEN [kind |-> Truncated, files |-> << >>]
          ELSE read_files_to_end(bytes, content.pos, left - 1,
                                 Append(files, File(name.string, content.content)),
                                 alloc_limit)

(* the loop `for _ in 1..=file_count` with `left` iterations to go *)
RECURSIVE read_files(_, _, _, _, _)
read_files(bytes, pos, left, files, alloc_limit) ==
    IF left = 0 THEN [kind |-> "Ok", files |-> files]
    ELSE
      LET name == read_string_until_0x00(bytes, pos)
          length == read_u64(bytes, name.pos)
          alloc == vec_zeroed(length.val, alloc_limit)
          content == read_content(bytes, length.pos, length.val)
      IN  IF ~name.ok THEN [kind |-> Truncated, files |-> << >>]
          ELSE IF ~length.ok THEN [kind |-> Truncated, files |-> << >>]
          ELSE IF alloc # "Ok" THEN [kind |-> alloc, files |-> << >>]
          ELSE IF ~content.ok THEN [kind |-> Truncated, files |-> << >>]
          ELSE read_files(bytes, content.pos, left - 1,
                          Append(files, File(name.string, content.content)),
                          alloc_limit)

from_bytes(bytes, overflow_checks, alloc_limit) ==
    IF Len(bytes) = 0 THEN Err(Truncated)
    ELSE IF bytes[1] # MAGIC_NUMBER THEN Err(BadMagic)
    ELSE
      LET comment == read_string_until_0x00(bytes, 2)
          x == read_u64(bytes, comment.pos)
          y == CheckedAdd(x.val, Y_DIFFERENCE, overflow_checks)
          z == CheckedAdd(x.val, Z_DIFFERENCE, overflow_checks)
          file_count == read_u16(bytes, x.pos)
          files == read_files(bytes, file_count.pos, file_count.val, << >>, alloc_limit)
      IN  IF ~comment.ok THEN Err(Truncated)
          ELSE IF ~x.ok THEN Err(Truncated)
          ELSE IF y.panic \/ z.panic THEN Err("Panic")
          ELSE IF ~file_count.ok THEN Err(Truncated)
          ELSE IF files.kind # "Ok" THEN Err(files.kind)
          ELSE Ok(Container(comment.string, x.val, y.val, z.val, files.files))

--------------------------------------------------------------------------
(* Container::new, with `now` the seconds since the epoch as the clock    *)
(* gives them, or None when the clock is before the epoch.                *)

ClockError == "SystemTimeError"

new(comment, now, overflow_checks) ==
    IF ~IsSome(now) THEN Err(ClockError)
    ELSE LET x == Unwrap(now)
             y == CheckedAdd(x, Y_DIFFERENCE, overflow_checks)
             z == CheckedAdd(x, Z_DIFFERENCE, overflow_checks)
         IN  IF y.panic \/ z.panic THEN Err("Panic")
             ELSE Ok(Container(comment, x, y.val, z.val, << >>))

--------------------------------------------------------------------------
(* The file list operations *)

add_file(c, file) == [c EXCEPT !.files = Append(@, file)]

(* a filter that drops only the first file of the name *)
RECURSIVE filter_first_name(_, _)
filter_first_name(files, name) ==
    IF files = << >> THEN << >>
    ELSE IF Head(files).name # name
         THEN << Head(files) >> \o filter_first_name(Tail(files), name)
         ELSE Tail(files)

RECURSIVE filter_name_ne(_, _)
filter_name_ne(files, name) ==
    IF files = << >> THEN << >>
    ELSE IF Head(files).name # name
         THEN << Head(files) >> \o filter_name_ne(Tail(files), name)
         ELSE filter_name_ne(Tail(files), name)

remove_file(c, name) == [c EXCEPT !.files = filter_name_ne(@, name)]

(* a search that returns the last file of the name *)
RECURSIVE find_name_last(_, _)
find_name_last(files, name) ==
    IF files = << >> THEN None
    ELSE IF files[Len(files)].name = name THEN Some(files[Len(files)])
    ELSE find_name_last(SubSeq(files, 1, Len(files) - 1), name)

(* Iterator::find: the first element the predicate accepts *)
RECURSIVE find_name(_, _)
find_name(files, name) ==
    IF files = << >> THEN None
    ELSE IF Head(files).name = name THEN Some(Head(files))
    ELSE find_name(Tail(files), name)

get_file(c, name) == find_name(c.files, name)


--------------------------------------------------------------------------
(* Inputs of the calls *)

MaxFiles == 2

MaxOps == 3

Str_hi == << 104, 105 >>

Str_a_txt == << 97, 46, 116, 120, 116 >>

(* a comment with a 0x00 byte followed by eight bytes *)
Str_nul_comment == << 0, 97, 98, 99, 100, 101, 102, 103, 104 >>

Comments == { Str_hi, << 233 >>, << 104, 0 >>, Str_nul_comment }

(* a name with a 0x00 byte followed by eight bytes, the last of them the   *)
(* second byte of a two-byte character                                    *)
Str_nul_name == << 0 >> \o Str_a_txt \o << 97, 233 >>

Names == { Str_a_txt, << 98 >>, Str_nul_name }

Files ==
    { File(Str_a_txt, << 1, 2, 3 >>), File(Str_a_txt, << 0, 242 >>),
      File(Str_nul_name, << >>) }

(* what the clock gives Container::new: seconds since the epoch, or None  *)
(* for a clock before the epoch                                           *)
Clock == { Some(U64(1000)), None }

(* the largest request the allocator grants: 4 GiB, or any request        *)
AllocLimits == { << 0, 0, 1, 0 >>, ISIZE_MAX }

U64_MAX == << LimbBase - 1, LimbBase - 1, LimbBase - 1, LimbBase - 1 >>

Header(comment_bytes, x, count) ==
    << MAGIC_NUMBER >> \o comment_bytes \o << 0 >> \o write_u64(x) \o write_u16(count)

(* buffers that are not made from an encoding at hand *)
RawBuffers ==
    { << >>, << 71 >>, << MAGIC_NUMBER >>,
      << 71 >> \o Tail(Header(<< 104 >>, U64(1000), 0)),
      Header(<< >>, U64_MAX, 0),
      Header(<< >>, << LimbBase - 1 - Y_DIFFERENCE, LimbBase - 1, LimbBase - 1, LimbBase - 1 >>, 0),
      Header(<< >>, << LimbBase - Y_DIFFERENCE, LimbBase - 1, LimbBase - 1, LimbBase - 1 >>, 0),
      Header(<< >>, U64_MAX, 0) \o << 9 >>,
      Header(<< 195 >>, U64(7), 0),
      Header(<< 104, 255, 226, 130 >>, U64(7), 0),
      Header(<< 240, 159, 152, 128 >>, U64(7), 1) \o << 98, 0 >> \o write_u64(U64(1)) \o << 5 >>,
      Header(<< >>, U64(7), 2) \o << 98, 0 >> \o write_u64(U64(1)) \o << 5 >>,
      Header(<< >>, U64(7), 1) \o << 98, 0 >> \o write_u64(U64(3)) \o << 5 >>,
      Header(<< >>, U64(7), 1) \o << 98, 0 >> \o write_u64(U64_MAX) \o << 5 >>,
      Header(<< >>, U64(7), 1) \o << 98, 0 >> \o write_u64(<< 0, 0, 256, 0 >>) \o << 5 >>,
      Header(<< >>, U64(7), LimbBase - 1) }

Trails == { << 0 >>, << MAGIC_NUMBER >>, << 1, 2 >> }

(* the buffers made from an encoding E: E itself, E with its last N bytes *)
(* removed, E with bytes after it, E with another first byte              *)
Derived(E) ==
    { SubSeq(E, 1, k) : k \in 1..Len(E) }
        \cup { E \o t : t \in Trails }
        \cup { << b >> \o Tail(E) : b \in { 0, 71 } }


--------------------------------------------------------------------------
(* State *)

VARIABLES
    overflow_checks,  \* the build: TRUE when integer overflow panics
    c,                \* Option<Container>: the container the caller holds
    call,             \* the last call and its arguments
    ret,              \* what the last call returned
    hist              \* Some(the add_file and remove_file calls made on c
                      \* since Container::new, in order) where the calls
                      \* are recorded, None where they are not

vars == << overflow_checks, c, call, ret, hist >>

Call(op, name, file, bytes, src) ==
    [op |-> op, name |-> name, file |-> file, bytes |-> bytes, src |-> src]

Ret(kind, bytes, file) == [kind |-> kind, bytes |-> bytes, file |-> file]

NoCall == Call("none", << >>, None, << >>, None)

(* a panic or an abort ends the program *)
Running == ret.kind \notin { "Panic", "Abort" }

HistAdd(file) == [op |-> "add", file |-> file]

HistRemove(name) == [op |-> "remove", file |-> File(name, << >>)]

Record(h, entry) == IF IsSome(h) THEN Some(Append(Unwrap(h), entry)) ELSE None

Recorded(h) == IF IsSome(h) THEN Len(Unwrap(h)) ELSE 0

Init ==
    /\ overflow_checks \in BOOLEAN
    /\ c = None
    /\ call = NoCall
    /\ ret = Ret("Unit", << >>, None)
    /\ hist = None

(* the same start, with the list calls recorded *)
InitFiles ==
    /\ overflow_checks \in BOOLEAN
    /\ c = None
    /\ call = NoCall
    /\ ret = Ret("Unit", << >>, None)
    /\ hist = Some(<< >>)

(* The program's first call makes the container: Container::new here,     *)
(* from_bytes below.                                                      *)
New(comment, now) ==
    /\ call = NoCall
    /\ LET r == new(comment, now, overflow_checks)
       IN  /\ c' = r.c
           /\ ret' = Ret(r.kind, << >>, None)
    /\ call' = Call("new", comment, None, << >>, None)
    /\ UNCHANGED << overflow_checks, hist >>

(* src: the container whose encoding bytes was made from, if any *)
FromBytes(bytes, alloc_limit, src) ==
    /\ Running
    /\ LET r == from_bytes(bytes, overflow_checks, alloc_limit)
       IN  /\ c' = r.c
           /\ ret' = Ret(r.kind, << >>, None)
    /\ call' = Call("from_bytes", << >>, None, bytes, src)
    /\ UNCHANGED << overflow_checks, hist >>

AddFile(file) ==
    /\ Running
    /\ IsSome(c)
    /\ Len(Unwrap(c).files) < MaxFiles
    /\ Recorded(hist) < MaxOps
    /\ c' = Some(add_file(Unwrap(c), file))
    /\ call' = Call("add_file", << >>, Some(file), << >>, None)
    /\ ret' = Ret("Unit", << >>, None)
    /\ hist' = Record(hist, HistAdd(file))
    /\ UNCHANGED overflow_checks

RemoveFile(name) ==
    /\ Running
    /\ IsSome(c)
    /\ Recorded(hist) < MaxOps
    /\ c' = Some(remove_file(Unwrap(c), name))
    /\ call' = Call("remove_file", name, None, << >>, None)
    /\ ret' = Ret("Unit", << >>, None)
    /\ hist' = Record(hist, HistRemove(name))
    /\ UNCHANGED overflow_checks

GetFile(name) ==
    /\ Running
    /\ IsSome(c)
    /\ call' = Call("get_file", name, None, << >>, None)
    /\ ret' = Ret("Option", << >>, get_file(Unwrap(c), name))
    /\ UNCHANGED << overflow_checks, c, hist >>

ToBytes ==
    /\ Running
    /\ IsSome(c)
    /\ call' = Call("to_bytes", << >>, None, << >>, None)
    /\ ret' = Ret("Ok", to_bytes(Unwrap(c)), None)
    /\ UNCHANGED << overflow_checks, c, hist >>

(* from_bytes on a buffer made from the encoding to_bytes just returned *)
DecodeEncoded ==
    /\ call.op = "to_bytes"
    /\ \E bytes \in Derived(ret.bytes), lim \in AllocLimits : FromBytes(bytes, lim, c)

(* from_bytes on a buffer of the caller's as the first call *)
DecodeRaw ==
    /\ call = NoCall
    /\ \E bytes \in RawBuffers, lim \in AllocLimits : FromBytes(bytes, lim, None)

Next ==
    \/ \E comment \in Comments, now \in Clock : New(comment, now)
    \/ DecodeEncoded
    \/ DecodeRaw
    \/ \E file \in Files : AddFile(file)
    \/ \E name \in Names : RemoveFile(name)
    \/ \E name \in Names : GetFile(name)
    \/ ToBytes

Spec == Init /\ [][Next]_vars

(* Container::new followed by the file list calls, each recorded *)
NextFiles ==
    \/ \E comment \in Comments, now \in Clock : New(comment, now)
    \/ \E file \in Files : AddFile(file)
    \/ \E name \in Names : RemoveFile(name)
    \/ \E name \in Names : GetFile(name)

SpecFiles == InitFiles /\ [][NextFiles]_vars


--------------------------------------------------------------------------
(* Vocabulary of the properties *)

HasZero(b) == \E i \in 1..Len(b) : b[i] = 0

(* no 0x00 byte in the comment or in a file name *)
NoNul(C) ==
    /\ ~HasZero(as_bytes(C.comment))
    /\ \A i \in 1..Len(C.files) : ~HasZero(as_bytes(C.files[i].name))

U16_MAX == LimbBase - 1

(* the last call was from_bytes on a buffer made from to_bytes(call.src) *)
DecodedFromEncoding == call.op = "from_bytes" /\ IsSome(call.src)

Encoding == to_bytes(Unwrap(call.src))

(* the last call was from_bytes(to_bytes(C)) for C = call.src *)
DecodedEncoding == DecodedFromEncoding /\ call.bytes = Encoding

(* the last call was from_bytes on to_bytes(C) less its last N bytes,     *)
(* for some N with 1 <= N < len                                           *)
DecodedTruncation ==
    /\ DecodedFromEncoding
    /\ LET E == Encoding
           N == Len(E) - Len(call.bytes)
       IN  /\ 1 <= N
           /\ N < Len(E)
           /\ call.bytes = SubSeq(E, 1, Len(E) - N)

(* C1. Round trip: for a container C with no 0x00 byte in its comment or  *)
(* file names and at most 65535 files, from_bytes(to_bytes(C)) succeeds   *)
(* and returns the comment, x, y, z and the files of C, in order.         *)
RoundTrip ==
    (DecodedEncoding /\ NoNul(Unwrap(call.src))
        /\ Len(Unwrap(call.src).files) <= U16_MAX)
    => /\ ret.kind = "Ok"
       /\ IsSome(c)
       /\ Unwrap(c).comment = Unwrap(call.src).comment
       /\ Unwrap(c).x = Unwrap(call.src).x
       /\ Unwrap(c).y = Unwrap(call.src).y
       /\ Unwrap(c).z = Unwrap(call.src).z
       /\ Unwrap(c).files = Unwrap(call.src).files

(* a round trip of a container with a two-byte comment character and two  *)
(* files                                                                  *)
RoundTripWitness ==
    /\ DecodedEncoding
    /\ NoNul(Unwrap(call.src))
    /\ Unwrap(call.src).comment = << 233 >>
    /\ Len(Unwrap(call.src).files) = 2
    /\ ret.kind = "Ok"


(* a - b on u64 limbs with the borrow out of bit 63 (1 when a < b) *)
SubWithBorrow(a, b) ==
    LET d1 == a[1] - b[1]
        w1 == IF d1 < 0 THEN 1 ELSE 0
        d2 == a[2] - b[2] - w1
        w2 == IF d2 < 0 THEN 1 ELSE 0
        d3 == a[3] - b[3] - w2
        w3 == IF d3 < 0 THEN 1 ELSE 0
        d4 == a[4] - b[4] - w3
        w4 == IF d4 < 0 THEN 1 ELSE 0
    IN  [diff   |-> << d1 + w1 * LimbBase, d2 + w2 * LimbBase,
                       d3 + w3 * LimbBase, d4 + w4 * LimbBase >>,
         borrow |-> w4]

(* a = b + d as integers, d a small constant *)
ExactlyPlus(a, b, d) ==
    SubWithBorrow(a, b).borrow = 0 /\ SubWithBorrow(a, b).diff = U64(d)

(* C2. Every container the caller holds, made by Container::new or by     *)
(* from_bytes and whatever calls followed, has y = x + 43 and z = x + 34  *)
(* (so y - x = 43 and z - x = 34).                                        *)
DerivedFields ==
    IsSome(c) => /\ ExactlyPlus(Unwrap(c).y, Unwrap(c).x, 43)
                 /\ ExactlyPlus(Unwrap(c).z, Unwrap(c).x, 34)

(* C3 as stated: from_bytes on any encoding to_bytes(C) less its last N   *)
(* bytes, 1 <= N < len, fails with Truncated.                             *)
TruncationOfAnyEncoding ==
    DecodedTruncation => (ret.kind = Truncated /\ c = None)

(* C3, amended: from_bytes on to_bytes(C) less its last N bytes,          *)
(* 1 <= N < len, fails with Truncated when C has no 0x00 byte in its      *)
(* comment or file names and at most 65535 files.                         *)
TruncationDetected ==
    (DecodedTruncation /\ NoNul(Unwrap(call.src))
        /\ Len(Unwrap(call.src).files) <= U16_MAX)
    => (ret.kind = Truncated /\ c = None)

(* an encoding of two files cut inside the last file's content *)
TruncationWitness ==
    /\ DecodedTruncation
    /\ NoNul(Unwrap(call.src))
    /\ Len(Unwrap(call.src).files) = 2
    /\ Len(call.bytes) = Len(Encoding) - 1
    /\ ret.kind = Truncated

(* C4. from_bytes on a buffer whose first byte is not 0x46 fails with     *)
(* BadMagic whatever follows, also when nothing follows, and returns no   *)
(* container.                                                             *)
MagicRejection ==
    (call.op = "from_bytes" /\ Len(call.bytes) >= 1 /\ call.bytes[1] # 70)
    => (ret.kind = BadMagic /\ c = None)

(* the one-byte buffer 0x47 *)
MagicRejectionWitness ==
    /\ call.op = "from_bytes"
    /\ call.bytes = << 71 >>
    /\ ret.kind = BadMagic


(* the length of one file record: name, terminator, length field, content *)
RecordLen(f) == Len(as_bytes(f.name)) + 1 + 8 + Len(f.content)

(* the length of the first k file records *)
RECURSIVE SumRecordLen(_, _)
SumRecordLen(files, k) ==
    IF k = 0 THEN 0 ELSE SumRecordLen(files, k - 1) + RecordLen(files[k])

(* byte i (0 the least significant) of a u64, and of a small number *)
U64Byte(v, i) == (v[(i \div 2) + 1] \div (IF i % 2 = 0 THEN 1 ELSE 256)) % 256

NatByte(n, i) ==
    IF i = 0 THEN n % 256
    ELSE IF i = 1 THEN (n \div 256) % 256
    ELSE IF i = 2 THEN (n \div LimbBase) % 256
    ELSE IF i = 3 THEN (n \div (256 * LimbBase)) % 256
    ELSE 0

ExampleFiles == << File(Str_a_txt, << 1, 2, 3 >>) >>

ExampleBytes ==
    << 70, 104, 105, 0, 232, 3, 0, 0, 0, 0, 0, 0, 1, 0, 97, 46, 116, 120, 116, 0,
       3, 0, 0, 0, 0, 0, 0, 0, 1, 2, 3 >>

(* C5. to_bytes(C) is 0x46, the comment's bytes, 0x00, x in 8             *)
(* little-endian bytes, the file count mod 65536 in 2 little-endian       *)
(* bytes, then per file in order its name's bytes, 0x00, its content      *)
(* length in 8 little-endian bytes and its content; its length is         *)
(* 1 + len(comment)+1 + 8 + 2 + the sum over the files of                 *)
(* len(name)+1 + 8 + len(content); y and z are not in it; and the         *)
(* container "hi", x = 1000, ("a.txt", [1,2,3]) gives the 31 bytes of     *)
(* the example.                                                           *)
WireLayout ==
    call.op = "to_bytes" =>
      LET C  == Unwrap(c)
          E  == ret.bytes
          cb == as_bytes(C.comment)
          n  == Len(C.files) % (U16_MAX + 1)
          h  == Len(cb) + 12
      IN  /\ ret.kind = "Ok"
          /\ Len(E) = 1 + Len(cb) + 1 + 8 + 2 + SumRecordLen(C.files, Len(C.files))
          /\ E[1] = 70
          /\ \A i \in 1..Len(cb) : E[1 + i] = cb[i]
          /\ E[Len(cb) + 2] = 0
          /\ \A i \in 0..7 : E[Len(cb) + 3 + i] = U64Byte(C.x, i)
          /\ E[Len(cb) + 11] = n % 256
          /\ E[Len(cb) + 12] = n \div 256
          /\ \A k \in 1..Len(C.files) :
                LET o  == h + SumRecordLen(C.files, k - 1)
                    nb == as_bytes(C.files[k].name)
                    ct == C.files[k].content
                IN  /\ \A i \in 1..Len(nb) : E[o + i] = nb[i]
                    /\ E[o + Len(nb) + 1] = 0
                    /\ \A i \in 0..7 : E[o + Len(nb) + 2 + i] = NatByte(Len(ct), i)
                    /\ \A i \in 1..Len(ct) : E[o + Len(nb) + 9 + i] = ct[i]
          /\ \A v \in { U64(0), U64_MAX } : to_bytes([C EXCEPT !.y = v, !.z = v]) = E
          /\ (C.comment = Str_hi /\ C.x = U64(1000) /\ C.files = ExampleFiles)
                => E = ExampleBytes

(* to_bytes on the container of the example *)
WireLayoutWitness ==
    /\ call.op = "to_bytes"
    /\ Unwrap(c).comment = Str_hi
    /\ Unwrap(c).x = U64(1000)
    /\ Unwrap(c).files = ExampleFiles
    /\ Len(ret.bytes) = 31


(* the elements of a finite set of numbers in ascending order *)
RECURSIVE Ascending(_)
Ascending(S) ==
    IF S = {} THEN << >>
    ELSE LET m == CHOOSE m \in S : \A x \in S : m <= x
         IN  << m >> \o Ascending(S \ { m })

(* the recorded add_file calls that no later remove_file call names *)
Kept(h) ==
    { i \in 1..Len(h) :
        /\ h[i].op = "add"
        /\ \A j \in (i + 1)..Len(h) :
              ~(h[j].op = "remove" /\ h[j].file.name = h[i].file.name) }

(* the added files not removed after they were added, in insertion order *)
Expected(h) == LET idx == Ascending(Kept(h)) IN [k \in 1..Len(idx) |-> h[idx[k]].file]

(* C6. After any sequence of add_file and remove_file calls on a new      *)
(* container, files is the sequence, in insertion order, of the files     *)
(* added and not removed by name after they were added: add_file appends  *)
(* and leaves the earlier files as they were, remove_file(name) removes   *)
(* every file of that name, keeps the order of the others and does        *)
(* nothing when no file has the name; add_file(F) then                    *)
(* remove_file(F.name) on an empty list leaves it empty.                  *)
ListSemantics ==
    (IsSome(c) /\ IsSome(hist)) =>
      LET h == Unwrap(hist)
          files == Unwrap(c).files
      IN  /\ files = Expected(h)
          /\ (call.op = "add_file" => ret.kind = "Unit" /\ files[Len(files)] = Unwrap(call.file))
          /\ (Len(h) = 2 /\ h[1].op = "add" /\ h[2].op = "remove"
                /\ h[2].file.name = h[1].file.name) => files = << >>

(* two files of one name added, then removed by one remove_file call *)
ListSemanticsWitness ==
    /\ IsSome(c)
    /\ IsSome(hist)
    /\ Len(Unwrap(hist)) = 3
    /\ Unwrap(hist)[1] = HistAdd(File(Str_a_txt, << 1, 2, 3 >>))
    /\ Unwrap(hist)[2] = HistAdd(File(Str_a_txt, << 0, 242 >>))
    /\ Unwrap(hist)[3] = HistRemove(Str_a_txt)
    /\ Unwrap(c).files = << >>

(* the first file of the name in sequence order, or None *)
FirstMatch(files, name) ==
    IF \E i \in 1..Len(files) : files[i].name = name
    THEN Some(files[CHOOSE i \in 1..Len(files) :
                      /\ files[i].name = name
                      /\ \A j \in 1..(i - 1) : files[j].name # name])
    ELSE None

(* C7. get_file(name) returns the first file in sequence order whose name *)
(* is name (the earliest added one still present when several share it),  *)
(* or none when no file has the name, and leaves the container as it was. *)
GetFileFirstMatch ==
    [][(call'.op = "get_file" /\ IsSome(c))
         => /\ c' = c
            /\ ret'.file = FirstMatch(Unwrap(c).files, call'.name)]_vars

(* get_file on a name two files share returned the first of them *)
GetFileWitness ==
    /\ call.op = "get_file"
    /\ call.name = Str_a_txt
    /\ IsSome(c)
    /\ Unwrap(c).files = << File(Str_a_txt, << 0, 242 >>), File(Str_a_txt, << 1, 2, 3 >>) >>
    /\ ret.file = Some(File(Str_a_txt, << 0, 242 >>))


(* C8. Bytes after the last file's content are ignored: when from_bytes   *)
(* succeeds on a buffer B, from_bytes on B followed by any bytes succeeds *)
(* and returns the same container.                                        *)
TrailingBytesIgnored ==
    call.op = "from_bytes" =>
      \A k \in 0..(Len(call.bytes) - 1), lim \in AllocLimits :
         LET r == from_bytes(SubSeq(call.bytes, 1, k), overflow_checks, lim)
         IN  r.kind = "Ok" => (ret.kind = "Ok" /\ c = r.c)

(* from_bytes succeeded on an encoding of two files followed by two bytes *)
TrailingBytesWitness ==
    /\ DecodedFromEncoding
    /\ call.bytes = Encoding \o << 1, 2 >>
    /\ Len(Unwrap(call.src).files) = 2
    /\ ret.kind = "Ok"
    /\ c = call.src

HasNul(C) == ~NoNul(C)

(* C9 as stated: for a container C with a 0x00 byte in its comment or in  *)
(* a file name, from_bytes(to_bytes(C)) does not fail: it returns a       *)
(* container that differs from C.                                         *)
EmbeddedNulNeverFails ==
    (DecodedEncoding /\ HasNul(Unwrap(call.src)))
    => (ret.kind = "Ok" /\ c # call.src)

(* C9, amended: to_bytes writes the comment and the names as they are,    *)
(* and for a container C with a 0x00 byte in its comment or in a file     *)
(* name from_bytes(to_bytes(C)) never returns C: it returns a container   *)
(* that differs from C, or fails with Truncated, or panics or aborts on   *)
(* the allocation of a content length read out of place.                  *)
EmbeddedNulDesynchronizes ==
    (DecodedEncoding /\ HasNul(Unwrap(call.src))) =>
      LET C  == Unwrap(call.src)
          E  == call.bytes
          cb == as_bytes(C.comment)
      IN  /\ SubSeq(E, 2, 1 + Len(cb)) = cb
          /\ \A k \in 1..Len(C.files) :
                LET o  == Len(cb) + 12 + SumRecordLen(C.files, k - 1)
                    nb == as_bytes(C.files[k].name)
                IN  SubSeq(E, o + 1, o + Len(nb)) = nb
          /\ \/ ret.kind = "Ok" /\ c # call.src
             \/ ret.kind = Truncated /\ c = None
             \/ ret.kind \in { "Panic", "Abort" } /\ c = None
                /\ \E k \in 1..(Len(E) - 7) :
                      U64Gt(read_u64(E, k).val, U64(Len(E)))

(* a comment with a 0x00 byte decoded to a container with another comment *)
EmbeddedNulWitness ==
    /\ DecodedEncoding
    /\ HasZero(as_bytes(Unwrap(call.src).comment))
    /\ ret.kind = "Ok"
    /\ Unwrap(c).comment # Unwrap(call.src).comment

(* C10. from_bytes ends, for every buffer, with a complete container, the *)
(* BadMagic error or the Truncated error, returned as a value: it never   *)
(* panics or aborts, whatever the x field and the content lengths say.    *)
DecodeTotal ==
    call.op = "from_bytes" =>
      \/ ret.kind = "Ok" /\ IsSome(c)
      \/ ret.kind = BadMagic /\ c = None
      \/ ret.kind = Truncated /\ c = None

=============================================================================
